---- MODULE Spec2Model ----
(***************************************************************************)
(* Model of the two Nagios plugins check_cisco_stack.py and                *)
(* check_cisco_tunnels.py: one invocation polls one device (primary walk,  *)
(* secondary walk, for the stack plugin a ring-status get), correlates the *)
(* two walks by index, evaluates the records and reports one               *)
(* (severity, message) pair through plugin_exit.                           *)
(*                                                                         *)
(* Python values that come from the SNMP library are tagged with their     *)
(* type (PyStr, PyInt, None) because the code's dictionaries and           *)
(* comparisons distinguish the string '4' from the integer 4.              *)
(*                                                                         *)
(* A string built by ''.join / str.format is kept as the sequence of its   *)
(* pieces; an uncaught Python exception ends the process with a traceback  *)
(* on stderr and exit status 1.                                            *)
(***************************************************************************)
EXTENDS Integers, Sequences, FiniteSets, TLC

(***************************************************************************)
(* Bounds of the model.                                                    *)
(***************************************************************************)
MaxRows == 2        \* rows returned by one walk
MaxCode == 12       \* largest state code handed to the decoder
MaxExitCode == 5    \* largest code handed to plugin_exit directly
MaxArgs == 2        \* command-line options of one invocation

(***************************************************************************)
(* Python values.                                                          *)
(***************************************************************************)
PyStr(s) == [str |-> s]
PyInt(n) == [int |-> n]
None == [none |-> TRUE]
IsStr(v) == DOMAIN v = {"str"}

(***************************************************************************)
(* Exit codes and status messages.                                         *)
(***************************************************************************)
OK == 0
WARNING == 1
CRITICAL == 2
UNKNOWN == 3

\* Slip: the fallback of the lookup is 'OK' instead of 'UNKNOWN'.
exit_status_default_ok(x) ==
    CASE x = 0 -> "OK"
      [] x = 1 -> "WARNING"
      [] x = 2 -> "CRITICAL"
      [] x = 3 -> "UNKNOWN"
      [] OTHER -> "OK"

exit_status(x) ==
    CASE x = 0 -> "OK"
      [] x = 1 -> "WARNING"
      [] x = 2 -> "CRITICAL"
      [] x = 3 -> "UNKNOWN"
      [] OTHER -> "UNKNOWN"

\* Exit status the operating system records for sys.exit(n): the low 8 bits.
ProcessStatus(n) == n % 256

(***************************************************************************)
(* stack_state: the chassis state decoder.  The dictionary is keyed by the *)
(* decimal STRINGS '1'..'11'; .get(x, 'UNKNOWN') is the fallback.          *)
(***************************************************************************)
StateNames ==
    [k \in {"1", "2", "3", "4", "5", "6", "7", "8", "9", "10", "11"} |->
        CASE k = "1" -> "waiting"
          [] k = "2" -> "progressing"
          [] k = "3" -> "added"
          [] k = "4" -> "ready"
          [] k = "5" -> "sdmMismatch"
          [] k = "6" -> "verMismatch"
          [] k = "7" -> "featureMismatch"
          [] k = "8" -> "newMasterInit"
          [] k = "9" -> "provisioned"
          [] k = "10" -> "invalid"
          [] k = "11" -> "removed"]

\* Slip: the lookup converts its argument with str() first, so the integer
\* 4 decodes like the string '4'.
stack_state_coerced(x) ==
    LET key == IF IsStr(x) THEN x.str
               ELSE IF DOMAIN x = {"int"} THEN ToString(x.int) ELSE "None"
    IN  IF key \in DOMAIN StateNames THEN StateNames[key] ELSE "UNKNOWN"

stack_state(x) ==
    IF IsStr(x) /\ x.str \in DOMAIN StateNames
    THEN StateNames[x.str]
    ELSE "UNKNOWN"


(***************************************************************************)
(* State of one invocation.                                                *)
(***************************************************************************)
VARIABLES
    program,      \* __program_name__ of the script that runs
    pc,           \* position of the invocation in main()
    options,      \* options dict returned by parse_args
    primary,      \* stack_table_oid / ifdesc_oid after the walk
    secondary,    \* stack_status_oid / ifstatus_oid after the walk
    table,        \* member_table / status_table
    ring,         \* stack_ring_status
    order,        \* order in which iteritems() visited the table
    evaluation,   \* <<>> or <<[result, message]>> returned by evaluate_results
    reports,      \* the calls plugin_exit(exitcode, message) made so far
    stdout,       \* lines printed on standard output
    exit_code,    \* <<>> while running, <<n>> once the process has ended
    exception,    \* "" or the uncaught exception that ended the process
    calls,        \* query-client calls and evaluations, in the order issued
    arg,          \* argument of a direct call of a pure function
    ret           \* its return value

vars == <<program, pc, options, primary, secondary, table, ring, order,
          evaluation, reports, stdout, exit_code, exception, calls, arg, ret>>

StackProgram == "Cisco Stack"
TunnelProgram == "Cisco Tunnels"

(***************************************************************************)
(* Truth value of the library objects tested by `if not <object>`.         *)
(* netsnmp.VarList defines __len__ (the walk leaves it empty on failure);  *)
(* netsnmp.Varbind defines neither __len__ nor __nonzero__, so an instance *)
(* is true whatever its val.                                               *)
(***************************************************************************)
\* Slip: the emptiness test of the walk result is lost.
VarListAlwaysTrue(varlist) == TRUE

VarListTruth(varlist) == Len(varlist) > 0
VarbindTruth(varbind) == TRUE

(***************************************************************************)
(* plugin_exit and the other ways the process ends.                        *)
(***************************************************************************)
ReportLine(exitcode, message) ==
    <<program, " ", exit_status(exitcode), " - ">> \o message

plugin_exit(exitcode, message) ==
    /\ reports' = Append(reports, [exitcode |-> exitcode, message |-> message])
    /\ stdout' = Append(stdout, ReportLine(exitcode, message))
    /\ exit_code' = <<ProcessStatus(exitcode)>>
    /\ exception' = ""
    /\ pc' = "terminal"

\* An exception nobody catches: traceback on stderr, nothing on stdout, and
\* the interpreter ends with exit status 1.
Uncaught(name) ==
    /\ exception' = name
    /\ exit_code' = <<1>>
    /\ pc' = "terminal"
    /\ UNCHANGED <<reports, stdout>>

Continue(next) ==
    /\ pc' = next
    /\ UNCHANGED <<reports, stdout, exit_code, exception>>

(***************************************************************************)
(* parse_args.  An argv is the sequence of its options; "-x" stands for an *)
(* option getopt does not recognise, "-H" and "-c" carry their argument.   *)
(***************************************************************************)
Tokens == {"-d", "-v", "-h", "-H", "-c", "-x"}

RECURSIVE SeqsUpTo(_, _)
SeqsUpTo(S, n) ==
    IF n = 0 THEN {<<>>}
    ELSE LET shorter == SeqsUpTo(S, n - 1)
         IN  shorter \cup {Append(q, x) : q \in shorter, x \in S}

Argvs == SeqsUpTo(Tokens, MaxArgs)

DefaultOptions == [remote_ip |-> None, community |-> PyStr("Public")]

\* usage(): prints the help text and exits UNKNOWN.
usage(out, opts) ==
    [out |-> Append(out, <<"usage">>), exit |-> <<UNKNOWN>>, options |-> opts]

RECURSIVE ScanOpts(_, _)
ScanOpts(opts, acc) ==
    IF opts = <<>>
    THEN IF acc.remote_ip = None
         THEN usage(<<<<"Requires host to check">>>>, acc)
         ELSE [out |-> <<>>, exit |-> <<>>, options |-> acc]
    ELSE LET o == Head(opts)
         IN  CASE o = "-d" -> ScanOpts(Tail(opts), acc)
               [] o = "-v" -> [out |-> <<<<"version">>>>, exit |-> <<0>>,
                               options |-> acc]
               [] o = "-h" -> usage(<<>>, acc)
               [] o = "-H" -> ScanOpts(Tail(opts),
                                  [acc EXCEPT !.remote_ip = PyStr("host")])
               [] o = "-c" -> ScanOpts(Tail(opts),
                                  [acc EXCEPT !.community = PyStr("secret")])

parse_args(argv) ==
    IF \E k \in 1..Len(argv) : argv[k] = "-x"
    THEN usage(<<<<"option -x not recognized">>>>, DefaultOptions)
    ELSE ScanOpts(argv, DefaultOptions)

(***************************************************************************)
(* What the query client can return.  A walk row is a Varbind: tag is the  *)
(* dotted identifier as the sequence of its components, iid the instance   *)
(* identifier, val the value (always a string).                            *)
(***************************************************************************)
Indices == {"1001", "2001", "3001"}
StatusCodes == {"4", "9", "5", "99"}
RingValues == {PyStr("1"), PyStr("2"), None}

Varbind(tag, iid, val) == [tag |-> tag, iid |-> iid, val |-> val]

\* cswSwitchNumCurrent: the member number is the leading digit of the index.
MemberNumber(i) == CASE i = "1001" -> "1" [] i = "2001" -> "2" [] i = "3001" -> "3"

StackTableRows == {Varbind(<<"1", i>>, "", PyStr(MemberNumber(i))) : i \in Indices}
StackStatusRows == {Varbind(<<"6", i>>, "", PyStr(c)) : i \in Indices, c \in StatusCodes}

\* member.tag.rsplit('.').pop(): the trailing component of the tag.
TagIndex(member) == member.tag[Len(member.tag)]

(***************************************************************************)
(* get_stack_info: the two phases of the correlator.                       *)
(***************************************************************************)
\* line 199-200: one record per row of the primary walk, keyed by its index.
StackRecord(member) == [number |-> member.val, index |-> TagIndex(member)]

RECURSIVE BuildMemberTable(_, _)
BuildMemberTable(member_table, rows) ==
    IF rows = <<>> THEN member_table
    ELSE LET a == StackRecord(Head(rows))
         IN  BuildMemberTable((a.index :> a) @@ member_table, Tail(rows))

\* line 208-210: attach status_num and status to the record of the row's index.
\* member_table[index] on an index the primary walk did not return raises
\* KeyError out of the loop.
AttachStackStatus(member_table, member) ==
    [member_table EXCEPT ![TagIndex(member)] =
        [status_num |-> member.val, status |-> stack_state(member.val)] @@ @]

\* Slip: `return member_table` indented into the loop, so only the first row
\* of the secondary walk is merged.
MergeStackStatusFirstRow(member_table, rows) ==
    IF rows = <<>> THEN [raised |-> "", table |-> member_table]
    ELSE IF TagIndex(Head(rows)) \notin DOMAIN member_table
         THEN [raised |-> "KeyError", table |-> member_table]
         ELSE [raised |-> "",
               table |-> AttachStackStatus(member_table, Head(rows))]

RECURSIVE MergeStackStatus(_, _)
MergeStackStatus(member_table, rows) ==
    IF rows = <<>> THEN [raised |-> "", table |-> member_table]
    ELSE IF TagIndex(Head(rows)) \notin DOMAIN member_table
         THEN [raised |-> "KeyError", table |-> member_table]
         ELSE MergeStackStatus(AttachStackStatus(member_table, Head(rows)),
                               Tail(rows))

EmptyTable == <<>>

(***************************************************************************)
(* evaluate_results of check_cisco_stack.py.  keys is the order in which   *)
(* stack.iteritems() yields the records (a dict has no defined order).     *)
(***************************************************************************)
Orders(S) ==
    {q \in [1..Cardinality(S) -> S] : \A i, j \in 1..Cardinality(S) :
                                          q[i] = q[j] => i = j}

\* ''.join(message): the empty piece contributes nothing.
Join(pieces) == SelectSeq(pieces, LAMBDA piece : piece # "")

Healthy(status_num) == status_num \in {PyStr("4"), PyStr("9")}

\* Slip: the severity is assigned on both branches, so a healthy record
\* resets what an earlier record raised.
MemberSeverityReset(result, member) ==
    IF ~Healthy(member.status_num) THEN CRITICAL ELSE OK

\* line 312-313
MemberSeverity(result, member) ==
    IF ~Healthy(member.status_num) THEN CRITICAL ELSE result

\* Slip: the fragment is labelled with the record's index instead of the
\* member number.
MemberFragmentByIndex(member) == <<member.index, ": ", member.status, ", ">>

\* line 311
MemberFragment(member) == <<member.number.str, ": ", member.status, ", ">>

\* Slip: the non-redundant branch forgets to raise the severity.
RingSeverityIgnored(result, r) == result

\* line 315-321
RingSeverity(result, r) ==
    IF r = PyStr("1") THEN result
    ELSE IF result = OK THEN WARNING ELSE result

RingClause(r) ==
    IF r = PyStr("1") THEN <<"Stack Ring is redundant">>
    ELSE <<"Stack Ring is non-redundant">>

\* line 309-314: member['status'] on a record the secondary walk never
\* reached raises KeyError.
RECURSIVE ScanMembers(_, _, _, _)
ScanMembers(stack, keys, result, message) ==
    IF keys = <<>> THEN [raised |-> "", result |-> result, message |-> message]
    ELSE LET member == stack[Head(keys)]
         IN  IF "status" \notin DOMAIN member
             THEN [raised |-> "KeyError", result |-> result, message |-> message]
             ELSE ScanMembers(stack, Tail(keys), MemberSeverity(result, member),
                              message \o MemberFragment(member))

stack_evaluate_results(stack, r, keys) ==
    LET scan == ScanMembers(stack, keys, OK, <<"Members: ">>)
    IN  IF scan.raised # "" THEN scan
        ELSE [raised |-> "",
              result |-> RingSeverity(scan.result, r),
              message |-> Join(scan.message \o RingClause(r))]

(***************************************************************************)
(* check_cisco_tunnels.py.  Interface names are matched character by       *)
(* character, so every name has its spelling.                              *)
(***************************************************************************)
IfIndices == {"1", "2"}
IfNames == {"Tunnel0", "Tunnel1", "GigabitEthernet0/1", "tunnel2"}
OperStatus == {"1", "2"}

Spelling(name) ==
    CASE name = "Tunnel" -> <<"T", "u", "n", "n", "e", "l">>
      [] name = "Tunnel0" -> <<"T", "u", "n", "n", "e", "l", "0">>
      [] name = "Tunnel1" -> <<"T", "u", "n", "n", "e", "l", "1">>
      [] name = "tunnel2" -> <<"t", "u", "n", "n", "e", "l", "2">>
      [] name = "GigabitEthernet0/1" ->
             <<"G", "i", "g", "a", "b", "i", "t", "E", "t", "h", "e", "r",
               "n", "e", "t", "0", "/", "1">>

\* re.search(pattern, string) for a pattern of literal characters: the
\* pattern occurs at some offset of the string.
re_search(pattern, string) ==
    LET p == Spelling(pattern)
        t == Spelling(string)
    IN  \E k \in 1..(Len(t) - Len(p) + 1) : SubSeq(t, k, k + Len(p) - 1) = p

IfDescRows == {Varbind(<<"ifDescr">>, i, PyStr(n)) : i \in IfIndices, n \in IfNames}
IfStatusRows == {Varbind(<<"ifOperStatus">>, i, PyStr(c)) : i \in IfIndices, c \in OperStatus}

\* get_status_table, line 162-165
RECURSIVE BuildStatusTable(_, _)
BuildStatusTable(status_table, rows) ==
    IF rows = <<>> THEN status_table
    ELSE LET a == [name |-> Head(rows).val, index |-> Head(rows).iid]
         IN  BuildStatusTable((a.index :> a) @@ status_table, Tail(rows))

\* get_status_table, line 172-175: status_table[index] on an index the
\* primary walk did not return raises KeyError out of the loop.
AttachIfStatus(status_table, member) ==
    [status_table EXCEPT ![member.iid] = [status |-> member.val] @@ @]

RECURSIVE MergeIfStatus(_, _)
MergeIfStatus(status_table, rows) ==
    IF rows = <<>> THEN [raised |-> "", table |-> status_table]
    ELSE IF Head(rows).iid \notin DOMAIN status_table
         THEN [raised |-> "KeyError", table |-> status_table]
         ELSE MergeIfStatus(AttachIfStatus(status_table, Head(rows)), Tail(rows))

\* Slip: the name filter is lost and every interface is evaluated.
TunnelMatchAll(interface) == TRUE

\* line 192
TunnelMatch(interface) == re_search("Tunnel", interface.name.str)

\* line 195: `interface['status'] is not '1'` compares object identity.
\* CPython keeps a single shared object for every one-character string, so
\* against the one-character literal identity coincides with equality.
IsDown(interface) == interface.status # PyStr("1")

\* line 194-197
IfState(interface) == IF IsDown(interface) THEN "DOWN" ELSE "UP"

IfSeverity(result, interface) ==
    IF IsDown(interface) THEN CRITICAL ELSE result

\* line 191-200: interface['status'] is read only for a matching record.
RECURSIVE ScanInterfaces(_, _, _, _)
ScanInterfaces(status, keys, result, message) ==
    IF keys = <<>> THEN [raised |-> "", result |-> result, message |-> message]
    ELSE LET interface == status[Head(keys)]
         IN  IF ~TunnelMatch(interface)
             THEN ScanInterfaces(status, Tail(keys), result, message)
             ELSE IF "status" \notin DOMAIN interface
             THEN [raised |-> "KeyError", result |-> result, message |-> message]
             ELSE ScanInterfaces(status, Tail(keys),
                                 IfSeverity(result, interface),
                                 message \o <<interface.name.str, ": ",
                                              IfState(interface), " ">>)

tunnel_evaluate_results(status, keys) ==
    LET scan == ScanInterfaces(status, keys, OK, <<"">>)
    IN  [scan EXCEPT !.message = Join(@)]

(***************************************************************************)
(* The invocation: main() of either script, one step per query.            *)
(***************************************************************************)
Init ==
    /\ program \in {StackProgram, TunnelProgram}
    /\ pc = "start"
    /\ options = DefaultOptions
    /\ primary = <<>>
    /\ secondary = <<>>
    /\ table = EmptyTable
    /\ ring = None
    /\ order = <<>>
    /\ evaluation = <<>>
    /\ reports = <<>>
    /\ stdout = <<>>
    /\ exit_code = <<>>
    /\ exception = ""
    /\ calls = <<>>
    /\ arg = None
    /\ ret = ""

ParseArgs ==
    /\ pc = "start"
    /\ \E argv \in Argvs :
         LET parsed == parse_args(argv)
         IN  /\ stdout' = stdout \o parsed.out
             /\ options' = parsed.options
             /\ exit_code' = parsed.exit
             /\ pc' = IF parsed.exit = <<>> THEN "primary" ELSE "terminal"
    /\ UNCHANGED <<program, primary, secondary, table, ring, order, evaluation,
                   reports, exception, calls, arg, ret>>

\* get_stack_info, line 191-200
StackTableWalk ==
    /\ pc = "primary" /\ program = StackProgram
    /\ \E stack_table_oid \in SeqsUpTo(StackTableRows, MaxRows) :
         /\ primary' = stack_table_oid
         /\ calls' = Append(calls, "walk primary")
         /\ IF ~VarListTruth(stack_table_oid)
            THEN /\ plugin_exit(CRITICAL, <<"Unable to retrieve SNMP stack table">>)
                 /\ table' = table
            ELSE /\ table' = BuildMemberTable(EmptyTable, stack_table_oid)
                 /\ Continue("secondary")
    /\ UNCHANGED <<program, options, secondary, ring, order, evaluation, arg, ret>>

\* get_stack_info, line 201-212
StackStatusWalk ==
    /\ pc = "secondary" /\ program = StackProgram
    /\ \E stack_status_oid \in SeqsUpTo(StackStatusRows, MaxRows) :
         /\ secondary' = stack_status_oid
         /\ calls' = Append(calls, "walk secondary")
         /\ IF ~VarListTruth(stack_status_oid)
            THEN /\ plugin_exit(CRITICAL, <<"Unable to retrieve SNMP stack status">>)
                 /\ table' = table
            ELSE LET merged == MergeStackStatus(table, stack_status_oid)
                 IN  /\ table' = merged.table
                     /\ IF merged.raised # "" THEN Uncaught(merged.raised)
                        ELSE Continue("aux")
    /\ UNCHANGED <<program, options, primary, ring, order, evaluation, arg, ret>>

\* get_ring_status, line 285-293: a failed get leaves val None.
GetRingStatus ==
    /\ pc = "aux" /\ program = StackProgram
    /\ \E val \in RingValues :
         LET ring_status_oid == Varbind(<<".1.3.6.1.4.1.9.9.500.1.1.3">>, "0", val)
         IN  /\ calls' = Append(calls, "get ring")
             /\ IF ~VarbindTruth(ring_status_oid)
                THEN /\ plugin_exit(CRITICAL, <<"Unable to retrieve SNMP ring status">>)
                     /\ ring' = ring
                ELSE /\ ring' = ring_status_oid.val
                     /\ Continue("evaluate")
    /\ UNCHANGED <<program, options, primary, secondary, table, order,
                   evaluation, arg, ret>>

\* main, line 335
StackEvaluate ==
    /\ pc = "evaluate" /\ program = StackProgram
    /\ \E keys \in Orders(DOMAIN table) :
         LET returned == stack_evaluate_results(table, ring, keys)
         IN  /\ order' = keys
             /\ calls' = Append(calls, "evaluate")
             /\ IF returned.raised # ""
                THEN /\ Uncaught(returned.raised)
                     /\ evaluation' = evaluation
                ELSE /\ evaluation' = <<[result |-> returned.result,
                                         message |-> returned.message]>>
                     /\ Continue("report")
    /\ UNCHANGED <<program, options, primary, secondary, table, ring, arg, ret>>

\* get_status_table, line 155-165
IfDescWalk ==
    /\ pc = "primary" /\ program = TunnelProgram
    /\ \E ifdesc_oid \in SeqsUpTo(IfDescRows, MaxRows) :
         /\ primary' = ifdesc_oid
         /\ calls' = Append(calls, "walk primary")
         /\ IF ~VarListTruth(ifdesc_oid)
            THEN /\ plugin_exit(CRITICAL,
                        <<"Unable to retrieve SNMP interface descriptions">>)
                 /\ table' = table
            ELSE /\ table' = BuildStatusTable(EmptyTable, ifdesc_oid)
                 /\ Continue("secondary")
    /\ UNCHANGED <<program, options, secondary, ring, order, evaluation, arg, ret>>

\* get_status_table, line 166-176
IfStatusWalk ==
    /\ pc = "secondary" /\ program = TunnelProgram
    /\ \E ifstatus_oid \in SeqsUpTo(IfStatusRows, MaxRows) :
         /\ secondary' = ifstatus_oid
         /\ calls' = Append(calls, "walk secondary")
         /\ IF ~VarListTruth(ifstatus_oid)
            THEN /\ plugin_exit(CRITICAL,
                        <<"Unable to retrieve SNMP interface status">>)
                 /\ table' = table
            ELSE LET merged == MergeIfStatus(table, ifstatus_oid)
                 IN  /\ table' = merged.table
                     /\ IF merged.raised # "" THEN Uncaught(merged.raised)
                        ELSE Continue("evaluate")
    /\ UNCHANGED <<program, options, primary, ring, order, evaluation, arg, ret>>

\* main, line 213
TunnelEvaluate ==
    /\ pc = "evaluate" /\ program = TunnelProgram
    /\ \E keys \in Orders(DOMAIN table) :
         LET returned == tunnel_evaluate_results(table, keys)
         IN  /\ order' = keys
             /\ calls' = Append(calls, "evaluate")
             /\ IF returned.raised # ""
                THEN /\ Uncaught(returned.raised)
                     /\ evaluation' = evaluation
                ELSE /\ evaluation' = <<[result |-> returned.result,
                                         message |-> returned.message]>>
                     /\ Continue("report")
    /\ UNCHANGED <<program, options, primary, secondary, table, ring, arg, ret>>

\* main, line 336 (stack) / line 214 (tunnels)
MainExit ==
    /\ pc = "report"
    /\ plugin_exit(evaluation[1].result, evaluation[1].message)
    /\ UNCHANGED <<program, options, primary, secondary, table, ring, order,
                   evaluation, calls, arg, ret>>

Next ==
    \/ ParseArgs
    \/ StackTableWalk
    \/ StackStatusWalk
    \/ GetRingStatus
    \/ StackEvaluate
    \/ IfDescWalk
    \/ IfStatusWalk
    \/ TunnelEvaluate
    \/ MainExit

Spec == Init /\ [][Next]_vars

(***************************************************************************)
(* Direct calls of the pure functions: the decoder on any Python value,    *)
(* the reporter on any code.                                               *)
(***************************************************************************)
DecoderInputs ==
    {PyInt(n) : n \in 0..MaxCode} \cup {PyStr(ToString(n)) : n \in 0..MaxCode}
        \cup {PyStr("99"), PyStr("x"), None}

UnitMessages ==
    {<<>>, <<"Unable to retrieve SNMP stack table">>,
     <<"Unable to retrieve SNMP ring status">>,
     <<"Members: ", "1", ": ", "ready", ", ", "Stack Ring is redundant">>,
     <<"Tunnel0", ": ", "UP", " ">>}

UnitInit ==
    /\ program \in {StackProgram, TunnelProgram}
    /\ pc = "unit"
    /\ options = DefaultOptions
    /\ primary = <<>>
    /\ secondary = <<>>
    /\ table = EmptyTable
    /\ ring = None
    /\ order = <<>>
    /\ evaluation = <<>>
    /\ reports = <<>>
    /\ stdout = <<>>
    /\ exit_code = <<>>
    /\ exception = ""
    /\ calls = <<>>
    /\ arg = None
    /\ ret = ""

CallStackState ==
    /\ pc = "unit"
    /\ \E x \in DecoderInputs :
         /\ arg' = x
         /\ ret' = stack_state(x)
    /\ pc' = "returned"
    /\ UNCHANGED <<program, options, primary, secondary, table, ring, order,
                   evaluation, reports, stdout, exit_code, exception, calls>>

CallPluginExit ==
    /\ pc = "unit"
    /\ \E exitcode \in 0..MaxExitCode, message \in UnitMessages :
         /\ arg' = PyInt(exitcode)
         /\ plugin_exit(exitcode, message)
    /\ UNCHANGED <<program, options, primary, secondary, table, ring, order,
                   evaluation, calls, ret>>

UnitNext == CallStackState \/ CallPluginExit

UnitSpec == UnitInit /\ [][UnitNext]_vars

(***************************************************************************)
(* Properties of the stack evaluator.                                      *)
(***************************************************************************)
StackEvaluated == program = StackProgram /\ evaluation # <<>>

Unhealthy(i) == table[i].status_num \notin {PyStr("4"), PyStr("9")}

\* C1: whenever the stack evaluator returns for a mapping with at least one
\* record whose status_num is neither '4' nor '9', the returned severity is
\* CRITICAL, for every ring value and every iteration order.
C1_UnhealthyIsCritical ==
    (StackEvaluated /\ \E i \in DOMAIN table : Unhealthy(i))
        => evaluation[1].result = CRITICAL

\* The unhealthy record is visited first, a healthy one after it, and the
\* ring is not redundant.
C1_Witness ==
    /\ StackEvaluated
    /\ Len(order) = 2
    /\ Unhealthy(order[1])
    /\ ~Unhealthy(order[2])
    /\ ring # PyStr("1")

\* C2: for a non-empty mapping whose records all have status_num '4' or '9'
\* the returned severity is OK when the ring reading is '1' and WARNING for
\* any other ring reading.
C2_HealthyFollowsRing ==
    (StackEvaluated /\ DOMAIN table # {} /\ \A i \in DOMAIN table : ~Unhealthy(i))
        => evaluation[1].result = (IF ring = PyStr("1") THEN OK ELSE WARNING)

C2_Witness ==
    /\ StackEvaluated
    /\ Cardinality(DOMAIN table) = 2
    /\ \A i \in DOMAIN table : ~Unhealthy(i)
    /\ ring = PyStr("2")
    /\ evaluation[1].result = WARNING

(***************************************************************************)
(* Properties of the poll: queries, correlation, termination.              *)
(***************************************************************************)
RowIndex(member) ==
    IF program = StackProgram THEN member.tag[Len(member.tag)] ELSE member.iid

IndicesOf(rows) == {RowIndex(rows[k]) : k \in 1..Len(rows)}

UniqueIndices(rows) ==
    \A j, k \in 1..Len(rows) : RowIndex(rows[j]) = RowIndex(rows[k]) => j = k

Issued(query) == \E k \in 1..Len(calls) : calls[k] = query

PrimaryDiagnostic ==
    IF program = StackProgram THEN <<"Unable to retrieve SNMP stack table">>
    ELSE <<"Unable to retrieve SNMP interface descriptions">>

SecondaryDiagnostic ==
    IF program = StackProgram THEN <<"Unable to retrieve SNMP stack status">>
    ELSE <<"Unable to retrieve SNMP interface status">>

ReportedCritical(message) ==
    /\ pc = "terminal"
    /\ reports = <<[exitcode |-> 2, message |-> message]>>
    /\ exit_code = <<2>>

\* C3: when the secondary walk returned a row whose index the primary walk
\* did not return, the invocation is in the terminal state having emitted
\* exactly one CRITICAL pair through plugin_exit (a line on standard output,
\* exit status 2), and no evaluation was performed.
C3_CorrelationFailureReported ==
    (Issued("walk secondary") /\ ~(IndicesOf(secondary) \subseteq IndicesOf(primary)))
        => /\ pc = "terminal"
           /\ Len(reports) = 1
           /\ reports[1].exitcode = CRITICAL
           /\ Len(stdout) = 1
           /\ exit_code = <<2>>
           /\ ~Issued("evaluate")

\* C4: when both walks succeeded and the ring-status get returned no value,
\* the invocation is in the terminal state with the single pair (CRITICAL,
\* 'Unable to retrieve SNMP ring status') and evaluate_results is not
\* reached.
C4_RingFailureReported ==
    (Issued("get ring") /\ ring = None)
        => /\ ReportedCritical(<<"Unable to retrieve SNMP ring status">>)
           /\ ~Issued("evaluate")
           /\ evaluation = <<>>

\* C5: queries are issued in the order primary walk, secondary walk,
\* auxiliary get, evaluation; an empty primary walk ends the invocation with
\* (CRITICAL, diagnostic of the primary table) and nothing is issued after
\* it; an empty secondary walk ends it with (CRITICAL, diagnostic of the
\* secondary table) and nothing is issued after it.
QueryOrder ==
    IF program = StackProgram
    THEN <<"walk primary", "walk secondary", "get ring", "evaluate">>
    ELSE <<"walk primary", "walk secondary", "evaluate">>

C5_FirstFailingQueryDecides ==
    /\ Len(calls) <= Len(QueryOrder)
    /\ calls = SubSeq(QueryOrder, 1, Len(calls))
    /\ (Issued("walk primary") /\ primary = <<>>)
          => /\ calls = <<"walk primary">>
             /\ ReportedCritical(PrimaryDiagnostic)
             /\ Len(stdout) = 1
             /\ evaluation = <<>>
    /\ (Issued("walk secondary") /\ secondary = <<>>)
          => /\ calls = <<"walk primary", "walk secondary">>
             /\ ReportedCritical(SecondaryDiagnostic)
             /\ Len(stdout) = 1
             /\ evaluation = <<>>

\* The primary walk succeeded and the secondary walk came back empty.
C5_Witness ==
    /\ primary # <<>>
    /\ Issued("walk secondary")
    /\ secondary = <<>>
    /\ pc = "terminal"

Incomplete == \E i \in DOMAIN table : "status" \notin DOMAIN table[i]

\* C6: once the queries have started, every terminal state has emitted
\* exactly one (severity, message) pair through plugin_exit and nothing
\* else, and a snapshot with a record lacking its status field is never
\* evaluated.  (Stated for the runs in which every index of the secondary
\* walk is known to the primary walk; the other runs are those of C3.)
C6_ExactlyOnePair ==
    (calls # <<>> /\ IndicesOf(secondary) \subseteq IndicesOf(primary))
        => /\ pc = "terminal" =>
                /\ Len(reports) = 1
                /\ Len(stdout) = 1
                /\ exception = ""
                /\ exit_code = <<reports[1].exitcode>>
           /\ (secondary # <<>> /\ Incomplete) => ~Issued("evaluate")

Permuted(rows, p) == [k \in 1..Len(rows) |-> rows[p[k]]]

Correlate(first, second) ==
    IF program = StackProgram
    THEN MergeStackStatus(BuildMemberTable(EmptyTable, first), second)
    ELSE MergeIfStatus(BuildStatusTable(EmptyTable, first), second)

\* C7: when the primary and the secondary walk have unique indices and
\* every secondary index is among the primary ones, correlating any
\* permutation of the secondary rows gives the mapping the invocation built
\* from the original order.
C7_JoinOrderIndependent ==
    (/\ Issued("walk secondary")
     /\ secondary # <<>>
     /\ UniqueIndices(primary)
     /\ UniqueIndices(secondary)
     /\ IndicesOf(secondary) \subseteq IndicesOf(primary))
        => \A p \in Orders(1..Len(secondary)) :
              LET joined == Correlate(primary, Permuted(secondary, p))
              IN  joined.raised = "" /\ joined.table = table

\* Two secondary rows arrived in the order opposite to the primary rows.
C7_Witness ==
    /\ Issued("walk secondary")
    /\ Len(primary) = 2 /\ Len(secondary) = 2
    /\ UniqueIndices(primary)
    /\ RowIndex(secondary[1]) = RowIndex(primary[2])
    /\ RowIndex(secondary[2]) = RowIndex(primary[1])
    /\ secondary[1].val # secondary[2].val
    /\ pc # "terminal"

(***************************************************************************)
(* Properties of the decoder, the tunnel evaluator and the reporter.       *)
(***************************************************************************)
NamesInOrder ==
    <<"waiting", "progressing", "added", "ready", "sdmMismatch", "verMismatch",
      "featureMismatch", "newMasterInit", "provisioned", "invalid", "removed">>

Decoded == pc = "returned"

\* C8 as stated: the decoder returns the assigned name for every INTEGER 1
\* to 11, and 'UNKNOWN' for the other inputs 0, "99" and "x".
C8_DecoderOnIntegers ==
    Decoded =>
        /\ \A n \in 1..11 : arg = PyInt(n) => ret = NamesInOrder[n]
        /\ arg \in {PyInt(0), PyStr("99"), PyStr("x")} => ret = "UNKNOWN"

\* C8 (amended): the decoder returns the assigned name for each of the
\* decimal strings '1' to '11', in that numeric order, and 'UNKNOWN' for any
\* other string, for every integer (1 to 11 included) and for None; it
\* returns on each of these inputs.
C8_DecoderOnStrings ==
    Decoded =>
        IF \E n \in 1..11 : arg = PyStr(ToString(n))
        THEN \A n \in 1..11 : arg = PyStr(ToString(n)) => ret = NamesInOrder[n]
        ELSE ret = "UNKNOWN"

\* The decoder was handed the integer 4 and answered 'UNKNOWN'.
C8_Witness == Decoded /\ arg = PyInt(4) /\ ret = "UNKNOWN"

TunnelEvaluated == program = TunnelProgram /\ evaluation # <<>>

TunnelNames == {"Tunnel0", "Tunnel1"}

IsTunnel(i) == table[i].name.str \in TunnelNames

Mentions(message, name) == \E k \in 1..Len(message) : message[k] = name

\* C9: the tunnel evaluator returns CRITICAL exactly when some record whose
\* name contains 'Tunnel' has a status other than '1', and OK otherwise; with
\* no matching record the message is empty; a record whose name does not
\* contain 'Tunnel' is not mentioned in the message, every matching record
\* is, with UP for status '1' and DOWN otherwise.
C9_TunnelFilter ==
    TunnelEvaluated =>
        LET result == evaluation[1].result
            message == evaluation[1].message
            matching == {i \in DOMAIN table : IsTunnel(i)}
            down == {i \in matching : table[i].status # PyStr("1")}
        IN  /\ result = (IF down # {} THEN CRITICAL ELSE OK)
            /\ matching = {} => message = <<>>
            /\ Len(message) = 4 * Cardinality(matching)
            /\ \A i \in DOMAIN table \ matching :
                   ~Mentions(message, table[i].name.str)
            /\ \A i \in matching : Mentions(message, table[i].name.str)
            /\ \A k \in 1..Cardinality(matching) :
                   message[4 * k - 1] =
                       (IF table[order[
                               CHOOSE j \in 1..Len(order) :
                                   /\ IsTunnel(order[j])
                                   /\ Cardinality({h \in 1..j : IsTunnel(order[h])}) = k
                           ]].status = PyStr("1")
                        THEN "UP" ELSE "DOWN")

\* A tunnel that is up next to a non-tunnel interface that is down: OK.
C9_Witness ==
    /\ TunnelEvaluated
    /\ \E i, j \in DOMAIN table :
          /\ IsTunnel(i) /\ table[i].status = PyStr("1")
          /\ table[j].name.str = "GigabitEthernet0/1"
          /\ "status" \in DOMAIN table[j]
          /\ table[j].status = PyStr("2")
    /\ evaluation[1].result = OK

SeverityName(code) ==
    IF code = 0 THEN "OK"
    ELSE IF code = 1 THEN "WARNING"
    ELSE IF code = 2 THEN "CRITICAL"
    ELSE "UNKNOWN"

IndexNumber(i) ==
    CASE i = "1001" -> 1001 [] i = "2001" -> 2001 [] i = "3001" -> 3001

\* The indices of the mapping, smallest first.
Ascending(S) ==
    CHOOSE q \in Orders(S) :
        \A j, k \in 1..Len(q) : j < k => IndexNumber(q[j]) < IndexNumber(q[k])

RECURSIVE FragmentsAlong(_)
FragmentsAlong(keys) ==
    IF keys = <<>> THEN <<>>
    ELSE <<table[Head(keys)].number.str, ": ", table[Head(keys)].status, ", ">>
             \o FragmentsAlong(Tail(keys))

ExpectedRingClause ==
    IF ring = PyStr("1") THEN "Stack Ring is redundant"
    ELSE "Stack Ring is non-redundant"

MessageAlong(keys) ==
    <<"Members: ">> \o FragmentsAlong(keys) \o <<ExpectedRingClause>>

\* C11 as stated: the message of the stack evaluator is 'Members: ', then
\* one fragment '{number}: {status}, ' per record in index-ascending order,
\* then the ring clause, so it is determined by the records alone.
C11_MessageIndexAscending ==
    StackEvaluated => evaluation[1].message = MessageAlong(Ascending(DOMAIN table))

\* C11 (amended): the message of the stack evaluator is 'Members: ', then
\* one fragment '{number}: {status}, ' for every record of the mapping,
\* each exactly once, in the order in which the dictionary yields the
\* records, then the ring clause.
C11_MessageFollowsIteration ==
    StackEvaluated =>
        /\ order \in Orders(DOMAIN table)
        /\ evaluation[1].message = MessageAlong(order)

\* Two records were reported with the larger index first.
C11_Witness ==
    /\ StackEvaluated
    /\ order = <<"2001", "1001">>
    /\ evaluation[1].message # MessageAlong(<<"1001", "2001">>)

====
